---- MODULE Spec2Model ----
(***************************************************************************)
(* Gene panel versioning of scout: PanelHandler (scout/adapter/mongo/      *)
(* panel.py).  The panel collection of the document store holds one        *)
(* document per panel version; add_pending pushes a proposed change onto a *)
(* stored document, apply_pending builds version + 1 from an in-memory     *)
(* panel object, inserts it and archives the object it was given.          *)
(*                                                                         *)
(* Documents and gene objects are Python dicts: they are modelled as       *)
(* functions from field names to values, so that an optional field is      *)
(* either in the DOMAIN or not.  The `date` field (wall clock time) is not *)
(* modelled.                                                               *)
(***************************************************************************)
EXTENDS Integers, Sequences, FiniteSets, TLC

(* ------------------------------ bounds -------------------------------- *)
\* most pending entries the stored documents hold together
MaxPending == 2
\* the same, while apply_pending calls of several clients interleave
MaxPendingConc == 1
\* highest panel version that apply_pending is still called on, plus one
MaxVersion == 3
\* most documents the store is given in all (the highest _id it hands out)
MaxDocs == 3
\* most pending entries the stored documents hold together while panels are
\* loaded and deleted
MaxPendingStore == 1
\* most lines of a panel file
MaxLines == 3

(* ------------------------------ inputs -------------------------------- *)
Clients == {"c1", "c2"}
Actions == {"add", "delete", "edit"}
PanelName == "panel1"
Institute == "cust000"

\* hgnc_gene dicts handed to add_pending: hgnc_id and hgnc_symbol
HgncGenes == {[hgnc_id |-> 1, hgnc_symbol |-> "A"],
              [hgnc_id |-> 3, hgnc_symbol |-> "C"]}

\* the optional gene fields, in the order apply_pending tests them
OptFields == <<"disease_associated_transcripts", "inheritance_models",
               "reduced_penetrance", "mosaicism", "database_entry_version">>
OptFieldSet == {OptFields[i] : i \in 1..Len(OptFields)}

EmptyDict == [x \in {} |-> TRUE]

\* `info` dicts handed to add_pending
Infos == {EmptyDict,
          [inheritance_models |-> <<"AR">>, mosaicism |-> FALSE]}

\* the (hgnc_gene, action, info) arguments of add_pending calls; the optional
\* info is <<>> when not given (info=None) and <<info>> when given; a delete
\* is proposed without info
Proposals == (HgncGenes \X {"delete"} \X {<<>>})
             \cup (HgncGenes \X {"add", "edit"} \X {<<i>> : i \in Infos})

\* the proposals made while apply_pending calls of several clients interleave
ProposalsConc ==
    {<<[hgnc_id |-> 3, hgnc_symbol |-> "C"], "add", <<EmptyDict>>>>,
     <<[hgnc_id |-> 1, hgnc_symbol |-> "A"], "edit",
       <<[inheritance_models |-> <<"AR">>, mosaicism |-> FALSE]>>>>,
     <<[hgnc_id |-> 1, hgnc_symbol |-> "A"], "delete", <<>>>>}

\* the proposals made while panels are loaded and deleted; "remove" is no
\* valid action
ProposalsStore ==
    {<<[hgnc_id |-> 3, hgnc_symbol |-> "C"], "add", <<EmptyDict>>>>,
     <<[hgnc_id |-> 1, hgnc_symbol |-> "A"], "delete", <<>>>>,
     <<[hgnc_id |-> 1, hgnc_symbol |-> "A"], "remove", <<>>>>}

PanelNames == {PanelName, "panel2"}
Institutes == {Institute, "cust001"}
LoadVersions == {1, 2}

\* gene lists of freshly loaded panels (distinct hgnc_id)
LoadedGenes == {<<[hgnc_id |-> 1, symbol |-> "A", mosaicism |-> TRUE],
                  [hgnc_id |-> 2, symbol |-> "B"]>>}

(* ----------------------------- dict helpers --------------------------- *)
\* Python truth value of the value stored under an optional field
Truthy(field, v) ==
    CASE field \in {"reduced_penetrance", "mosaicism"} -> v
      [] field \in {"disease_associated_transcripts", "inheritance_models"} -> Len(v) > 0
      [] OTHER -> v # ""

\* `if info.get(field):`
InfoGet(info, field) == field \in DOMAIN info /\ Truthy(field, info[field])

\* `d[key] = value`
SetItem(d, key, value) ==
    [x \in DOMAIN d \cup {key} |-> IF x = key THEN value ELSE d[x]]

\* one of the five `if info.get(f): gene[f] = info[f]` statements
CopyField(gene, info, field) ==
    IF InfoGet(info, field) THEN SetItem(gene, field, info[field]) ELSE gene

RECURSIVE CopyFields(_, _, _)
\* the five statements in a row, starting at field number i
CopyFields(gene, info, i) ==
    IF i > Len(OptFields) THEN gene
    ELSE CopyFields(CopyField(gene, info, OptFields[i]), info, i + 1)

(* --------------------------- apply_pending ---------------------------- *)
\* the gene object created for an `add` entry
GeneObj(update) ==
    CopyFields([hgnc_id |-> update.hgnc_id, symbol |-> update.symbol],
               update.info, 1)

\* an edit that also resets the flags its info does not set
EditGeneResetsFlags(gene, info) ==
    LET edited == CopyFields(gene, info, 1)
    IN [f \in DOMAIN edited |->
          IF f \in {"reduced_penetrance", "mosaicism"} /\ ~InfoGet(info, f)
          THEN FALSE ELSE edited[f]]

\* the gene of the panel after an `edit` entry has been applied to it
EditGene(gene, info) == CopyFields(gene, info, 1)

RECURSIVE FirstLoopFirstWins(_, _, _, _)
\* a first loop that keeps the first edit/delete entry of an hgnc_id
FirstLoopFirstWins(pending, i, new_genes, updates) ==
    IF i > Len(pending) THEN [new_genes |-> new_genes, updates |-> updates]
    ELSE LET update == pending[i]
         IN IF update.action = "add"
            THEN FirstLoopFirstWins(pending, i + 1, Append(new_genes, GeneObj(update)),
                                    updates)
            ELSE FirstLoopFirstWins(pending, i + 1, new_genes,
                                    IF update.hgnc_id \in DOMAIN updates THEN updates
                                    ELSE SetItem(updates, update.hgnc_id, update))

RECURSIVE FirstLoop(_, _, _, _)
\* first loop: `add` entries create genes, the others are indexed by hgnc_id
FirstLoop(pending, i, new_genes, updates) ==
    IF i > Len(pending) THEN [new_genes |-> new_genes, updates |-> updates]
    ELSE LET update == pending[i]
         IN IF update.action = "add"
            THEN FirstLoop(pending, i + 1, Append(new_genes, GeneObj(update)), updates)
            ELSE FirstLoop(pending, i + 1, new_genes,
                           SetItem(updates, update.hgnc_id, update))

RECURSIVE SecondLoopKeepsDeleted(_, _, _, _)
\* a second loop that carries a deleted gene forward like an unchanged one
SecondLoopKeepsDeleted(genes, i, updates, new_genes) ==
    IF i > Len(genes) THEN [new_genes |-> new_genes, genes |-> genes]
    ELSE LET gene == genes[i]
             hgnc_id == gene.hgnc_id
         IN IF hgnc_id \in DOMAIN updates /\ updates[hgnc_id].action = "edit"
            THEN LET edited == EditGene(gene, updates[hgnc_id].info)
                 IN SecondLoopKeepsDeleted([genes EXCEPT ![i] = edited], i + 1, updates,
                                           Append(new_genes, edited))
            ELSE SecondLoopKeepsDeleted(genes, i + 1, updates, Append(new_genes, gene))

RECURSIVE SecondLoop(_, _, _, _)
\* second loop over panel_obj['genes']; `genes` is the list of the panel
\* object itself, whose gene dicts an edit changes in place
SecondLoop(genes, i, updates, new_genes) ==
    IF i > Len(genes) THEN [new_genes |-> new_genes, genes |-> genes]
    ELSE LET gene == genes[i]
             hgnc_id == gene.hgnc_id
         IN IF hgnc_id \in DOMAIN updates
            THEN LET current_update == updates[hgnc_id]
                     action == current_update.action
                     info == current_update.info
                 IN IF action = "delete"
                    THEN SecondLoop(genes, i + 1, updates, new_genes)
                    ELSE IF action = "edit"
                    THEN LET edited == EditGene(gene, info)
                         IN SecondLoop([genes EXCEPT ![i] = edited], i + 1, updates,
                                       Append(new_genes, edited))
                    ELSE SecondLoop(genes, i + 1, updates, new_genes)
            ELSE SecondLoop(genes, i + 1, updates, Append(new_genes, gene))

\* the loops in the other order: carried-forward genes before added genes
MergePendingBaseFirst(panel_obj) ==
    LET first == FirstLoop(panel_obj.pending, 1, <<>>, EmptyDict)
        second == SecondLoop(panel_obj.genes, 1, first.updates, <<>>)
    IN [new_genes |-> second.new_genes \o first.new_genes, genes |-> second.genes]

\* a merge whose second loop also goes over the genes the first loop added
MergePendingUpdatesAdded(panel_obj) ==
    LET first == FirstLoop(panel_obj.pending, 1, <<>>, EmptyDict)
        second == SecondLoop(first.new_genes \o panel_obj.genes, 1, first.updates, <<>>)
    IN [new_genes |-> second.new_genes, genes |-> panel_obj.genes]

\* both loops: the new gene list and the gene list panel_obj is left with
MergePending(panel_obj) ==
    LET first == FirstLoop(panel_obj.pending, 1, <<>>, EmptyDict)
    IN SecondLoop(panel_obj.genes, 1, first.updates, first.new_genes)

\* a new panel that keeps the version of its base
NewPanelSameVersion(panel_obj, _id) ==
    [_id |-> _id,
     panel_name |-> panel_obj.panel_name,
     institute |-> panel_obj.institute,
     version |-> panel_obj.version,
     genes |-> MergePending(panel_obj).new_genes,
     pending |-> <<>>,
     is_archived |-> panel_obj.is_archived]

\* a new panel that keeps the pending queue of its base
NewPanelKeepsPending(panel_obj, _id) ==
    [_id |-> _id,
     panel_name |-> panel_obj.panel_name,
     institute |-> panel_obj.institute,
     version |-> panel_obj.version + 1,
     genes |-> MergePending(panel_obj).new_genes,
     pending |-> panel_obj.pending,
     is_archived |-> panel_obj.is_archived]

\* a new panel copied from a base that was marked archived before the copy
NewPanelArchived(panel_obj, _id) ==
    [_id |-> _id,
     panel_name |-> panel_obj.panel_name,
     institute |-> panel_obj.institute,
     version |-> panel_obj.version + 1,
     genes |-> MergePending(panel_obj).new_genes,
     pending |-> <<>>,
     is_archived |-> TRUE]

\* the new panel as handed to insert_one, which gives it the _id
NewPanel(panel_obj, _id) ==
    [_id |-> _id,
     panel_name |-> panel_obj.panel_name,
     institute |-> panel_obj.institute,
     version |-> panel_obj.version + 1,
     genes |-> MergePending(panel_obj).new_genes,
     pending |-> <<>>,
     is_archived |-> panel_obj.is_archived]

\* panel_obj as the loops leave it: its edited genes are changed in place
AfterLoops(panel_obj) ==
    [panel_obj EXCEPT !.genes = MergePending(panel_obj).genes]

\* the archive flag left as it is
NotArchived(panel_obj) == panel_obj

\* `panel_obj['is_archived'] = True`
Archived(panel_obj) == [panel_obj EXCEPT !.is_archived = TRUE]

(* ------------------------------ the store ----------------------------- *)
\* find_one_and_replace({'_id': ...}, panel_obj): no upsert
FindOneAndReplace(collection, panel_obj) ==
    {IF d._id = panel_obj._id THEN panel_obj ELSE d : d \in collection}

\* a push that puts the entry at the front of the array
FindOneAndPushFront(collection, _id, pending_action) ==
    {IF d._id = _id THEN [d EXCEPT !.pending = <<pending_action>> \o @] ELSE d
        : d \in collection}

\* find_one_and_update({'_id': ...}, {'$push': {'pending': ...}})
FindOneAndPush(collection, _id, pending_action) ==
    {IF d._id = _id THEN [d EXCEPT !.pending = Append(@, pending_action)] ELSE d
        : d \in collection}

\* the dict add_pending pushes, after `info = info or {}`
PendingAction(hgnc_gene, action, info) ==
    [hgnc_id |-> hgnc_gene.hgnc_id,
     action |-> action,
     info |-> IF info = <<>> \/ DOMAIN info[1] = {} THEN EmptyDict ELSE info[1],
     symbol |-> hgnc_gene.hgnc_symbol]

(* ----------------------------- parse_genes ---------------------------- *)
\* A line of a panel file is given by the number of '#' it starts with (0,
\* 1, or 2 for two or more) and by its cells: the words between the file's
\* delimiter, the '#' left out.  No cells is the empty line.  A value that is
\* None in Python is <<>> here, and a value v that is not None is <<v>>.  The
\* two list fields of a gene (transcripts, inheritance_models), which are
\* split on ',', and the sniffing of the delimiter are not modelled.
FileLines ==
    {[hashes |-> 0, cells |-> <<>>],
     [hashes |-> 2, cells |-> <<"panel_id=panel1">>],
     [hashes |-> 1, cells |-> <<"HGNC_ID", "HGNC_SYMBOL">>],
     [hashes |-> 0, cells |-> <<"hgnc_symbol", "hgnc_id">>],
     [hashes |-> 0, cells |-> <<"1", "A">>],
     [hashes |-> 0, cells |-> <<"1", "B">>],
     [hashes |-> 0, cells |-> <<"2", "A">>],
     [hashes |-> 0, cells |-> <<"0", "A">>],
     [hashes |-> 0, cells |-> <<"A", "1">>],
     [hashes |-> 0, cells |-> <<"A">>],
     [hashes |-> 0, cells |-> <<"B">>],
     [hashes |-> 0, cells |-> <<"", "">>]}

\* str.lower on the words of the files
Lower(word) ==
    CASE word = "HGNC_ID" -> "hgnc_id"
      [] word = "HGNC_SYMBOL" -> "hgnc_symbol"
      [] OTHER -> word

\* `'hgnc' in line or 'HGNC' in line`
ContainsHgnc(line) ==
    \E k \in 1..Len(line.cells) :
        line.cells[k] \in {"hgnc_id", "hgnc_symbol", "HGNC_ID", "HGNC_SYMBOL"}

\* the decimal numbers among the words of the files
Decimal == [w \in {"0", "1", "2"} |-> CASE w = "0" -> 0 [] w = "1" -> 1 [] OTHER -> 2]

\* str.isdigit
IsDigit(word) == word \in DOMAIN Decimal

\* dict(zip(header, splitted_line)): a later column of the same name wins
Zip(header, cells) ==
    LET n == IF Len(header) < Len(cells) THEN Len(header) ELSE Len(cells)
    IN [name \in {header[k] : k \in 1..n} |->
          cells[CHOOSE k \in 1..n : /\ header[k] = name
                                    /\ \A j \in 1..n : header[j] = name => j <= k]]

\* the first of the keys that gene_info has, <<>> if it has none of them
FirstKey(gene_info, keys) ==
    LET S == {k \in 1..Len(keys) : keys[k] \in DOMAIN gene_info}
    IN IF S = {} THEN <<>>
       ELSE <<keys[CHOOSE k \in S : \A j \in S : k <= j]>>

\* `gene_info.get(key)` is truthy
InfoTruthy(gene_info, key) == key \in DOMAIN gene_info /\ gene_info[key] # ""

\* parse_gene: ok is FALSE when it raises SyntaxError; identifier is the
\* hgnc id if it is truthy, else the symbol
ParseGene(gene_info) ==
    LET id_key == FirstKey(gene_info, <<"hgnc_id", "hgnc_idnumber", "hgncid">>)
        int_fails == id_key # <<>> /\ ~IsDigit(gene_info[id_key[1]])
        hgnc_id == IF id_key = <<>> \/ int_fails THEN <<>>
                   ELSE <<Decimal[gene_info[id_key[1]]]>>
        symbol_key == FirstKey(gene_info, <<"hgnc_symbol", "hgncsymbol", "symbol">>)
        hgnc_symbol == IF symbol_key = <<>> THEN <<>> ELSE <<gene_info[symbol_key[1]]>>
        id_truthy == hgnc_id # <<>> /\ hgnc_id[1] # 0
        symbol_truthy == hgnc_symbol # <<>> /\ hgnc_symbol[1] # ""
    IN [ok |-> ~int_fails /\ (id_truthy \/ symbol_truthy),
        identifier |-> IF id_truthy THEN [hgnc_id |-> hgnc_id[1]]
                       ELSE [hgnc_symbol |-> hgnc_symbol],
        gene |-> [hgnc_id |-> hgnc_id,
                  hgnc_symbol |-> hgnc_symbol,
                  mosaicism |-> InfoTruthy(gene_info, "mosaicism"),
                  reduced_penetrance |-> InfoTruthy(gene_info, "reduced_penetrance"),
                  database_entry_version |->
                      IF "database_entry_version" \in DOMAIN gene_info
                      THEN <<gene_info["database_entry_version"]>> ELSE <<>>]]

\* the header parse_genes works with once it has read line number i
HeaderAfter(line, i, header) ==
    IF line.cells = <<>> THEN header
    ELSE IF line.hashes > 0
    THEN IF line.hashes = 1
         THEN [k \in 1..Len(line.cells) |-> Lower(line.cells[k])]
         ELSE header
    ELSE IF i # 0 THEN header
    ELSE IF ContainsHgnc(line)
    THEN [k \in 1..Len(line.cells) |-> Lower(line.cells[k])]
    ELSE IF IsDigit(line.cells[1]) THEN <<"hgnc_id">> ELSE <<"hgnc_symbol">>

\* the line is one that parse_genes zips with the header
IsGeneLine(line, i) ==
    /\ line.cells # <<>>
    /\ line.hashes = 0
    /\ ~(i = 0 /\ ContainsHgnc(line))

\* `for key in gene_info: if gene_info[key]`
InfoFound(gene_info) == \E key \in DOMAIN gene_info : gene_info[key] # ""

RECURSIVE ParseLoopKeepsAll(_, _, _, _, _)
\* a loop that appends every gene, seen before or not
ParseLoopKeepsAll(lines, i, header, genes_, hgnc_identifiers) ==
    IF i >= Len(lines) THEN [genes |-> genes_, raised |-> "none"]
    ELSE LET line == lines[i + 1]
             new_header == HeaderAfter(line, i, header)
             gene_info == Zip(new_header, line.cells)
             parsed == ParseGene(gene_info)
         IN IF ~IsGeneLine(line, i) \/ ~InfoFound(gene_info)
            THEN ParseLoopKeepsAll(lines, i + 1, new_header, genes_, hgnc_identifiers)
            ELSE IF ~parsed.ok
            THEN [genes |-> <<>>, raised |-> "SyntaxError"]
            ELSE ParseLoopKeepsAll(lines, i + 1, new_header, Append(genes_, parsed.gene),
                                   hgnc_identifiers \cup {parsed.identifier})

RECURSIVE ParseLoop(_, _, _, _, _)
\* the loop of parse_genes from line number i (counted from 0) on
ParseLoop(lines, i, header, genes_, hgnc_identifiers) ==
    IF i >= Len(lines) THEN [genes |-> genes_, raised |-> "none"]
    ELSE LET line == lines[i + 1]
             new_header == HeaderAfter(line, i, header)
             gene_info == Zip(new_header, line.cells)
             parsed == ParseGene(gene_info)
         IN IF ~IsGeneLine(line, i) \/ ~InfoFound(gene_info)
            THEN ParseLoop(lines, i + 1, new_header, genes_, hgnc_identifiers)
            ELSE IF ~parsed.ok
            THEN [genes |-> <<>>, raised |-> "SyntaxError"]
            ELSE IF parsed.identifier \notin hgnc_identifiers
            THEN ParseLoop(lines, i + 1, new_header, Append(genes_, parsed.gene),
                           hgnc_identifiers \cup {parsed.identifier})
            ELSE ParseLoop(lines, i + 1, new_header, genes_, hgnc_identifiers)

\* parse_genes(gene_lines)
ParseGenes(lines) == ParseLoop(lines, 0, <<>>, <<>>, {})

(* ------------------------------- state -------------------------------- *)
VARIABLES
    panel_collection,  \* the documents of the panel collection
    next_id,           \* the next ObjectId the store hands out
    pc,                \* per client: where its apply_pending call stands
    panel_obj,         \* per client: the panel object given to apply_pending
    new_panel,         \* per client: the new_panel of apply_pending
    raised,            \* the exception the last call raised, "none" if it returned
    gene_lines,        \* the lines handed to parse_genes
    parsed_genes       \* the list `genes` parse_genes returned

vars == <<panel_collection, next_id, pc, panel_obj, new_panel, raised, gene_lines, parsed_genes>>

\* the variables of the panel file parser
parse_vars == <<gene_lines, parsed_genes>>

\* value of panel_obj / new_panel of a client that holds none
NoPanel == [_id |-> 0]

Init ==
    /\ \E genes \in LoadedGenes :
          panel_collection = {[_id |-> 1, panel_name |-> PanelName,
                               institute |-> Institute, version |-> 1,
                               genes |-> genes, pending |-> <<>>,
                               is_archived |-> FALSE]}
    /\ next_id = 2
    /\ pc = [c \in Clients |-> "idle"]
    /\ panel_obj = [c \in Clients |-> NoPanel]
    /\ new_panel = [c \in Clients |-> NoPanel]
    /\ raised = "none"
    /\ gene_lines = <<>>
    /\ parsed_genes = <<>>

RECURSIVE TotalPending(_)
\* number of pending entries in all documents of a collection
TotalPending(collection) ==
    IF collection = {} THEN 0
    ELSE LET d == CHOOSE x \in collection : TRUE
         IN Len(d.pending) + TotalPending(collection \ {d})

(* ------------------------------ actions ------------------------------- *)
\* a check of the action that lets every action through
ValidActionAny(action) == TRUE

\* `action in valid_actions`
ValidAction(action) == action \in Actions

\* add_pending: the check of the action, then one find_one_and_update on the
\* document of panel_obj['_id']
AddPending(limit, proposals) ==
    \E d \in panel_collection, x \in proposals :
        /\ TotalPending(panel_collection) < limit
        /\ IF ~ValidAction(x[2])
           THEN /\ raised' = "ValueError"
                /\ UNCHANGED panel_collection
           ELSE /\ raised' = "none"
                /\ panel_collection' =
                      FindOneAndPush(panel_collection, d._id,
                                     PendingAction(x[1], x[2], x[3]))
        /\ UNCHANGED <<next_id, pc, panel_obj, new_panel, parse_vars>>

\* apply_pending, run from entry to return on a stored document just read
ApplyPending(c) ==
    \E d \in panel_collection :
        /\ \A k \in Clients : pc[k] = "idle"
        /\ d.version < MaxVersion
        /\ next_id <= MaxDocs
        /\ panel_collection' =
              FindOneAndReplace(panel_collection \cup {NewPanel(d, next_id)},
                                Archived(AfterLoops(d)))
        /\ next_id' = next_id + 1
        /\ panel_obj' = [panel_obj EXCEPT ![c] = Archived(AfterLoops(d))]
        /\ new_panel' = [new_panel EXCEPT ![c] = NewPanel(d, next_id)]
        /\ raised' = "none"
        /\ UNCHANGED <<pc, parse_vars>>

\* a gene_panel that sorts the versions in ascending order
GenePanelOldest(collection, panel_id) ==
    {d \in collection : /\ d.panel_name = panel_id
                        /\ \A e \in collection :
                              e.panel_name = panel_id => d.version <= e.version}

\* gene_panel(panel_id) without version: a document of the highest version
GenePanelLatest(collection, panel_id) ==
    {d \in collection : /\ d.panel_name = panel_id
                        /\ \A e \in collection :
                              e.panel_name = panel_id => e.version <= d.version}

\* a client reads the latest version of the panel and calls apply_pending on it
Fetch(c) ==
    /\ pc[c] = "idle"
    /\ \E d \in GenePanelLatest(panel_collection, PanelName) :
          /\ d.version < MaxVersion
          /\ panel_obj' = [panel_obj EXCEPT ![c] = d]
    /\ new_panel' = [new_panel EXCEPT ![c] = NoPanel]
    /\ pc' = [pc EXCEPT ![c] = "called"]
    /\ UNCHANGED <<panel_collection, next_id, raised, parse_vars>>

\* apply_pending up to and including insert_one(new_panel)
ApplyInsert(c) ==
    /\ pc[c] \in {"called", "retrying"}
    /\ next_id <= MaxDocs
    /\ panel_collection' = panel_collection \cup {NewPanel(panel_obj[c], next_id)}
    /\ next_id' = next_id + 1
    /\ new_panel' = [new_panel EXCEPT ![c] = NewPanel(panel_obj[c], next_id)]
    /\ panel_obj' = [panel_obj EXCEPT ![c] = AfterLoops(panel_obj[c])]
    /\ pc' = [pc EXCEPT ![c] = "inserted"]
    /\ UNCHANGED <<raised, parse_vars>>

\* apply_pending from `panel_obj['is_archived'] = True` to its return
ApplyArchive(c) ==
    /\ pc[c] = "inserted"
    /\ panel_obj' = [panel_obj EXCEPT ![c] = Archived(panel_obj[c])]
    /\ panel_collection' = FindOneAndReplace(panel_collection, Archived(panel_obj[c]))
    /\ pc' = [pc EXCEPT ![c] = "idle"]
    /\ UNCHANGED <<next_id, new_panel, raised, parse_vars>>

\* a gene_panel that looks the version up under a key no document has
GenePanelWrongKey(collection, panel_id, version) ==
    {d \in collection : /\ d.panel_name = panel_id
                        /\ "panel_version" \in DOMAIN d
                        /\ d["panel_version"] = version}

\* gene_panel(panel_id, version): the documents find_one may return when the
\* version is truthy, else the latest documents; {} stands for None
GenePanel(collection, panel_id, version) ==
    IF version # 0
    THEN {d \in collection : d.panel_name = panel_id /\ d.version = version}
    ELSE GenePanelLatest(collection, panel_id)

\* gene_panels(institute_id=...): every document of the institute
GenePanels(collection, institute_id) ==
    {d \in collection : d.institute = institute_id}

\* latest_panels(institute_id): the panel objects the generator may yield
LatestPanels(collection, institute_id) ==
    LET panel_names == {d.panel_name : d \in GenePanels(collection, institute_id)}
    IN UNION {GenePanelLatest(collection, panel_name) : panel_name \in panel_names}

\* the panel objects handed to add_gene_panel
LoadablePanels ==
    {[panel_name |-> n, institute |-> i, version |-> v, genes |-> g,
      pending |-> <<>>, is_archived |-> FALSE]
        : n \in PanelNames, i \in Institutes, v \in LoadVersions, g \in LoadedGenes}

\* add_gene_panel: IntegrityError if gene_panel finds the name and version,
\* else insert_one, which gives the document its _id
AddGenePanel ==
    \E loaded \in LoadablePanels :
        IF GenePanel(panel_collection, loaded.panel_name, loaded.version) # {}
        THEN /\ raised' = "IntegrityError"
             /\ UNCHANGED <<panel_collection, next_id, pc, panel_obj, new_panel, parse_vars>>
        ELSE /\ next_id <= MaxDocs
             /\ panel_collection' =
                   panel_collection \cup {SetItem(loaded, "_id", next_id)}
             /\ next_id' = next_id + 1
             /\ raised' = "none"
             /\ UNCHANGED <<pc, panel_obj, new_panel, parse_vars>>

\* delete_panel: delete_one on the _id of a stored document
DeletePanel ==
    \E d \in panel_collection :
        /\ panel_collection' = {e \in panel_collection : e._id # d._id}
        /\ raised' = "none"
        /\ UNCHANGED <<next_id, pc, panel_obj, new_panel, parse_vars>>

\* one caller at a time, every call run to its end
Next == AddPending(MaxPending, Proposals) \/ ApplyPending("c1")

Spec == Init /\ [][Next]_vars

\* one caller at a time that also loads and deletes panels
NextStore ==
    \/ AddGenePanel
    \/ AddPending(MaxPendingStore, ProposalsStore)
    \/ ApplyPending("c1")
    \/ DeletePanel

SpecStore == Init /\ [][NextStore]_vars

\* one caller that loads panels, proposes changes and applies them, each
\* call on any stored document
NextSequential ==
    \/ AddGenePanel
    \/ AddPending(MaxPendingStore, ProposalsStore)
    \/ ApplyPending("c1")

SpecSequential == Init /\ [][NextSequential]_vars

RECURSIVE SeqsUpTo(_, _)
\* the sequences over a set of at most n elements
SeqsUpTo(S, n) ==
    IF n = 0 THEN {<<>>}
    ELSE LET shorter == SeqsUpTo(S, n - 1)
         IN shorter \cup {Append(q, x) : q \in shorter, x \in S}

\* a panel file is at hand, no line of it read yet
InitParse ==
    /\ \E genes \in LoadedGenes :
          panel_collection = {[_id |-> 1, panel_name |-> PanelName,
                               institute |-> Institute, version |-> 1,
                               genes |-> genes, pending |-> <<>>,
                               is_archived |-> FALSE]}
    /\ next_id = 2
    /\ pc = [c \in Clients |-> "idle"]
    /\ panel_obj = [c \in Clients |-> NoPanel]
    /\ new_panel = [c \in Clients |-> NoPanel]
    /\ raised = "none"
    /\ gene_lines \in SeqsUpTo(FileLines, MaxLines)
    /\ parsed_genes = <<>>

\* parse_genes(gene_lines): the genes it returns, or the SyntaxError
ParseFile ==
    LET result == ParseGenes(gene_lines)
    IN /\ parsed_genes' = result.genes
       /\ raised' = result.raised
       /\ UNCHANGED <<panel_collection, next_id, pc, panel_obj, new_panel, gene_lines>>

NextParse == ParseFile

\* a panel file is parsed
SpecParse == InitParse /\ [][NextParse]_vars

\* several clients whose apply_pending calls interleave at the store accesses
NextConc ==
    \/ AddPending(MaxPendingConc, ProposalsConc)
    \/ \E c \in Clients : Fetch(c)
    \/ \E c \in Clients : ApplyInsert(c)
    \/ \E c \in Clients : ApplyArchive(c)

SpecConc == Init /\ [][NextConc]_vars

\* apply_pending ends with an exception of the store after insert_one and
\* before update_panel: the new version is stored, the base is not archived
FailArchive(c) ==
    /\ pc[c] = "inserted"
    /\ pc' = [pc EXCEPT ![c] = "failed"]
    /\ raised' = "PyMongoError"
    /\ UNCHANGED <<panel_collection, next_id, panel_obj, new_panel, parse_vars>>

\* the caller of the failed call reads the latest version of the panel again
\* and calls apply_pending with it
Retry(c) ==
    /\ pc[c] = "failed"
    /\ \E d \in GenePanelLatest(panel_collection, PanelName) :
          /\ d.version < MaxVersion
          /\ panel_obj' = [panel_obj EXCEPT ![c] = d]
    /\ pc' = [pc EXCEPT ![c] = "retrying"]
    /\ raised' = "none"
    /\ UNCHANGED <<panel_collection, next_id, new_panel, parse_vars>>

\* one client whose apply_pending calls may fail half-way and be retried
NextRetry ==
    \/ AddPending(MaxPending, Proposals)
    \/ Fetch("c1")
    \/ ApplyInsert("c1")
    \/ ApplyArchive("c1")
    \/ FailArchive("c1")
    \/ Retry("c1")

SpecRetry == Init /\ [][NextRetry]_vars

\* one client that applies the pending changes again and again, each time
\* to the latest version of the panel it reads first
NextLatest ==
    \/ AddPending(MaxPending, Proposals)
    \/ Fetch("c1")
    \/ ApplyInsert("c1")
    \/ ApplyArchive("c1")

SpecLatest == Init /\ [][NextLatest]_vars

(* ------------------- vocabulary of the properties --------------------- *)
\* the hgnc_id of every gene (or pending entry) of a list, in order
Ids(list) == [k \in 1..Len(list) |-> list[k].hgnc_id]

\* the `add` entries of a pending queue, in proposal order
AddEntries(pending) == SelectSeq(pending, LAMBDA u : u.action = "add")

\* index of the last edit/delete entry for hgnc_id g, 0 if there is none
Effective(pending, g) ==
    LET S == {i \in 1..Len(pending) :
                 pending[i].action # "add" /\ pending[i].hgnc_id = g}
    IN IF S = {} THEN 0 ELSE CHOOSE i \in S : \A j \in S : j <= i

\* the effective entry for hgnc_id g is a delete
Deleted(pending, g) ==
    Effective(pending, g) # 0 /\ pending[Effective(pending, g)].action = "delete"

\* the effective entry for hgnc_id g is an edit
Edited(pending, g) ==
    Effective(pending, g) # 0 /\ pending[Effective(pending, g)].action = "edit"

\* the genes of a list that the queue does not delete, in order
Survivors(genes, pending) ==
    SelectSeq(genes, LAMBDA gene : ~Deleted(pending, gene.hgnc_id))

\* where gene number k of the base list stands in the new list, if it survives
Pos(genes, pending, k) ==
    Len(AddEntries(pending))
      + Cardinality({j \in 1..k : ~Deleted(pending, genes[j].hgnc_id)})

\* number of genes with hgnc_id g in a list
Count(list, g) == Cardinality({k \in 1..Len(list) : list[k].hgnc_id = g})

\* a step of Spec that is an apply_pending call
IsApply == next_id' # next_id
\* the stored document the call was given, and what it inserted
Base == CHOOSE d \in panel_collection : d._id = panel_obj'["c1"]._id
Result == new_panel'["c1"]
\* client c1 has completed an apply_pending call
Applied == new_panel["c1"]._id # 0

(* ------------------------------- claims ------------------------------- *)
\* C1 as stated (violated): the new gene list is the surviving base genes in
\* their original order followed by the added genes in proposal order.
C1_AddedGenesLast ==
    Applied =>
        Ids(new_panel["c1"].genes)
          = Ids(Survivors(panel_obj["c1"].genes, panel_obj["c1"].pending))
              \o Ids(AddEntries(panel_obj["c1"].pending))

\* C1 amended: the new gene list is the genes created by the add entries in
\* proposal order followed by the surviving base genes in their original
\* order; no carried-forward gene stands before or between the added genes.
C1_AddedGenesFirst ==
    Applied =>
        Ids(new_panel["c1"].genes)
          = Ids(AddEntries(panel_obj["c1"].pending))
              \o Ids(Survivors(panel_obj["c1"].genes, panel_obj["c1"].pending))

\* C1 witness: a call whose queue is an add followed by the delete of a base
\* gene has completed on a base with a surviving gene (base [1,2], pending
\* [add 3, delete 1] gives [3,2]).
C1_Witness ==
    /\ Applied
    /\ Len(panel_obj["c1"].pending) = 2
    /\ panel_obj["c1"].pending[1].action = "add"
    /\ panel_obj["c1"].pending[2].action = "delete"
    /\ Len(Survivors(panel_obj["c1"].genes, panel_obj["c1"].pending)) = 1
    /\ Len(new_panel["c1"].genes) = 2

\* C2 (violated): no step changes the gene list of a stored document; in
\* particular apply_pending leaves the stored genes of its base as they were.
C2_StoredGenesNeverChange ==
    [][\A d \in panel_collection : \A e \in panel_collection' :
          e._id = d._id => e.genes = d.genes]_vars

\* C3: the panel apply_pending returns has the version of its base plus one
\* and the panel name of its base, and it is the document that was inserted.
C3_VersionPlusOne ==
    [][IsApply =>
          /\ Result.version = Base.version + 1
          /\ Result.panel_name = Base.panel_name
          /\ Result \in panel_collection'
          /\ ~\E d \in panel_collection : d._id = Result._id]_vars

\* C3 witness: a call on a version 2 base has returned version 3.
C3_Witness ==
    /\ Applied
    /\ panel_obj["c1"].version = 2
    /\ new_panel["c1"].version = 3

\* C4 (violated): whatever the interleaving of the clients' apply_pending
\* calls, no two stored documents have the same (panel_name, version).
C4_NoTwoDocumentsOfOneVersion ==
    \A d \in panel_collection : \A e \in panel_collection :
        (d.panel_name = e.panel_name /\ d.version = e.version) => d._id = e._id

\* C5 (violated): the hgnc_id values of the genes of every stored document
\* are pairwise distinct.
C5_UniqueHgncIds ==
    \A d \in panel_collection :
        \A i \in 1..Len(d.genes) : \A j \in 1..Len(d.genes) :
            d.genes[i].hgnc_id = d.genes[j].hgnc_id => i = j

\* C6: the carried-forward part of the new gene list is decided, gene by
\* gene, by the last edit/delete entry for the gene's hgnc_id alone: the gene
\* is dropped if that entry is a delete, carries the edit of that entry (and
\* of no other entry) if it is an edit, and is the base gene if there is none.
C6_LastEntryWins ==
    [][IsApply =>
          \A k \in 1..Len(Base.genes) :
              LET g == Base.genes[k].hgnc_id
                  i == Effective(Base.pending, g)
                  p == Pos(Base.genes, Base.pending, k)
              IN /\ Deleted(Base.pending, g) => Count(Result.genes, g) = Count(AddEntries(Base.pending), g)
                 /\ ~Deleted(Base.pending, g) =>
                       /\ p <= Len(Result.genes)
                       /\ Result.genes[p] = IF i = 0 THEN Base.genes[k]
                                            ELSE EditGene(Base.genes[k], Base.pending[i].info)]_vars

\* C6 witness: a call whose queue holds a delete and then an edit that
\* changes the same base gene, or such an edit and then a delete.
C6_Witness ==
    /\ Applied
    /\ Len(panel_obj["c1"].pending) = 2
    /\ panel_obj["c1"].pending[1].hgnc_id = 1
    /\ panel_obj["c1"].pending[2].hgnc_id = 1
    /\ {panel_obj["c1"].pending[1].action, panel_obj["c1"].pending[2].action} = {"delete", "edit"}
    /\ \E i \in 1..2 : DOMAIN panel_obj["c1"].pending[i].info # {}
    /\ panel_obj["c1"].version = 1

\* C7: when the effective entry for hgnc_id g is a delete, no gene with
\* hgnc_id g stands in the carried-forward part of the new gene list (the part
\* after the added genes); and every base gene whose hgnc_id has no edit or
\* delete entry stands in that part with every field as in the base.
C7_DeleteRemovesOnlyItsGene ==
    [][IsApply =>
          LET carried == {p \in 1..Len(Result.genes) : p > Len(AddEntries(Base.pending))}
          IN \A k \in 1..Len(Base.genes) :
                LET g == Base.genes[k].hgnc_id
                IN /\ Deleted(Base.pending, g) =>
                         \A p \in carried : Result.genes[p].hgnc_id # g
                   /\ Effective(Base.pending, g) = 0 =>
                         \E p \in carried : Result.genes[p] = Base.genes[k]]_vars

\* C7 witness: a call on the loaded panel whose queue deletes gene 1 and has
\* no entry for gene 2 has completed.
C7_Witness ==
    /\ Applied
    /\ panel_obj["c1"].version = 1
    /\ Deleted(panel_obj["c1"].pending, 1)
    /\ Effective(panel_obj["c1"].pending, 2) = 0
    /\ Ids(new_panel["c1"].genes) = <<2>>

\* C8 (violated): a base gene whose effective entry is an edit is carried
\* forward with, for every optional field present in the entry's info, the
\* value of the info, whatever it is, and for every other optional field the
\* base gene's value (or absence).
C8_EditTakesEveryPresentField ==
    [][IsApply =>
          \A k \in 1..Len(Base.genes) :
              Edited(Base.pending, Base.genes[k].hgnc_id) =>
                  LET info == Base.pending[Effective(Base.pending, Base.genes[k].hgnc_id)].info
                      old == Base.genes[k]
                      new == Result.genes[Pos(Base.genes, Base.pending, k)]
                  IN \A f \in OptFieldSet :
                        IF f \in DOMAIN info
                        THEN f \in DOMAIN new /\ new[f] = info[f]
                        ELSE /\ f \in DOMAIN new <=> f \in DOMAIN old
                             /\ f \in DOMAIN old => new[f] = old[f]]_vars

\* C9: a call on a base with an empty pending queue inserts a new version
\* whose gene list is the gene list of the base, and the stored base is
\* archived when the call returns.
C9_EmptyQueueCopiesGenes ==
    [][(IsApply /\ Base.pending = <<>>) =>
          /\ Result.genes = Base.genes
          /\ Result \in panel_collection'
          /\ \E d \in panel_collection' : d._id = Base._id /\ d.is_archived]_vars

\* C9 witness: a call on a non-archived base with genes and an empty queue
\* has completed.
C9_Witness ==
    /\ Applied
    /\ panel_obj["c1"].pending = <<>>
    /\ Len(new_panel["c1"].genes) = 2
    /\ \E d \in panel_collection : d._id = panel_obj["c1"]._id /\ d.is_archived

\* C10: a base gene whose effective entry is an edit with an empty info is
\* carried forward with every field as in the base, at its place among the
\* carried-forward genes (its own index when the queue adds and deletes
\* nothing).
C10_EmptyEditKeepsGene ==
    [][IsApply =>
          \A k \in 1..Len(Base.genes) :
              LET g == Base.genes[k].hgnc_id
                  p == Pos(Base.genes, Base.pending, k)
              IN (/\ Edited(Base.pending, g)
                  /\ DOMAIN Base.pending[Effective(Base.pending, g)].info = {}) =>
                     /\ p <= Len(Result.genes)
                     /\ Result.genes[p] = Base.genes[k]
                     /\ (AddEntries(Base.pending) = <<>>
                           /\ Survivors(Base.genes, Base.pending) = Base.genes) => p = k]_vars

\* C10 witness: a call on the loaded panel whose only entry is an edit of
\* gene 1 with an empty info has completed, gene 1 standing first.
C10_Witness ==
    /\ Applied
    /\ panel_obj["c1"].version = 1
    /\ Len(panel_obj["c1"].pending) = 1
    /\ Edited(panel_obj["c1"].pending, 1)
    /\ DOMAIN panel_obj["c1"].pending[1].info = {}
    /\ Ids(new_panel["c1"].genes) = <<1, 2>>

\* a step of Spec that is a successful add_pending call
IsPush == next_id' = next_id /\ panel_collection' # panel_collection

\* some other document of the panel name has a higher version
Superseded(collection, p) ==
    \E e \in collection : e.panel_name = p.panel_name /\ e.version > p.version

\* C11: a call of add_pending that raises ValueError leaves every stored
\* document as it was, and no pending queue ever holds an entry whose action
\* is outside add, delete, edit.
C11_InvalidActionTouchesNothing ==
    [][/\ raised' = "ValueError" => panel_collection' = panel_collection
       /\ \A d \in panel_collection' : \A i \in 1..Len(d.pending) :
             d.pending[i].action \in {"add", "delete", "edit"}]_vars

\* C11 witness: add_pending has raised ValueError on a stored panel.
C11_Witness ==
    /\ raised = "ValueError"
    /\ panel_collection # {}

\* C12: a successful add_pending changes one stored document only, and of
\* that document the pending queue only, which is the old queue with one
\* entry of the four keys hgnc_id, action, info, symbol appended at its end.
C12_PushAppendsOneEntry ==
    [][IsPush =>
          \E d \in panel_collection : \E e \in panel_collection' :
              /\ e._id = d._id
              /\ panel_collection' \ {e} = panel_collection \ {d}
              /\ Len(e.pending) = Len(d.pending) + 1
              /\ SubSeq(e.pending, 1, Len(d.pending)) = d.pending
              /\ DOMAIN e.pending[Len(e.pending)] = {"hgnc_id", "action", "info", "symbol"}
              /\ [e EXCEPT !.pending = d.pending] = d]_vars

\* C12 witness: a stored document holds two different pending entries, the
\* second pushed onto the first.
C12_Witness ==
    \E d \in panel_collection :
        /\ Len(d.pending) = 2
        /\ d.pending[1] # d.pending[2]

\* a step of SpecStore that is an add_gene_panel call that inserted
IsLoad == next_id' # next_id /\ new_panel' = new_panel

\* C13: add_gene_panel that raises IntegrityError leaves the store as it was,
\* and add_gene_panel that inserts overwrites nothing and inserts one document
\* whose (panel_name, version) no stored document had.
C13_NoSecondLoadOfAVersion ==
    [][/\ raised' = "IntegrityError" => panel_collection' = panel_collection
       /\ IsLoad =>
             /\ panel_collection \subseteq panel_collection'
             /\ Cardinality(panel_collection') = Cardinality(panel_collection) + 1
             /\ \A e \in panel_collection' \ panel_collection :
                   ~\E d \in panel_collection :
                       d.panel_name = e.panel_name /\ d.version = e.version]_vars

\* C13 witness: add_gene_panel has raised IntegrityError on a non-empty store.
C13_Witness ==
    /\ raised = "IntegrityError"
    /\ panel_collection # {}

\* C14: the new panel of every apply_pending call, as returned and as
\* stored, has an empty pending queue.
C14_NewVersionHasNoPending ==
    [][IsApply =>
          /\ Result.pending = <<>>
          /\ \A e \in panel_collection' : e._id = Result._id => e.pending = <<>>]_vars

\* C14 witness: a call on a base with two pending entries has completed.
C14_Witness ==
    /\ Applied
    /\ Len(panel_obj["c1"].pending) = 2
    /\ \E e \in panel_collection : e._id = new_panel["c1"]._id

\* C15: every panel latest_panels may yield for an institute has the highest
\* version stored under its panel name, so it is never an archived version
\* with a stored non-archived version above it; gene_panel without version
\* returns such a document, and None exactly when the name has no document.
C15_LatestIsHighestVersion ==
    /\ \A i \in Institutes : \A p \in LatestPanels(panel_collection, i) :
          /\ ~Superseded(panel_collection, p)
          /\ ~(p.is_archived /\ \E e \in panel_collection :
                  e.panel_name = p.panel_name /\ ~e.is_archived /\ e.version > p.version)
    /\ \A n \in PanelNames :
          /\ \A p \in GenePanel(panel_collection, n, 0) :
                p \in panel_collection /\ p.panel_name = n /\ ~Superseded(panel_collection, p)
          /\ GenePanel(panel_collection, n, 0) = {}
                <=> ~\E d \in panel_collection : d.panel_name = n

\* C15 witness: a panel name has an archived version 1 and a non-archived
\* version 2 above it, which is the one latest_panels yields, and the other
\* panel name has no document.
C15_Witness ==
    /\ \E p \in LatestPanels(panel_collection, Institute) :
          /\ ~p.is_archived
          /\ p.version = 2
          /\ \E e \in panel_collection :
                e.panel_name = p.panel_name /\ e.is_archived /\ e.version = 1
    /\ \E n \in PanelNames : ~\E d \in panel_collection : d.panel_name = n

(* --------------------------------- C16 -------------------------------- *)
\* the step is a parse_genes that returned genes
IsParse == parsed_genes' # parsed_genes

RECURSIVE HeaderBefore(_, _)
\* the header in force when line number i (counted from 0) is read
HeaderBefore(lines, i) ==
    IF i = 0 THEN <<>>
    ELSE HeaderAfter(lines[i], i - 1, HeaderBefore(lines, i - 1))

\* what line number i says of its gene, read under the header in force
GeneOfLine(lines, i) ==
    ParseGene(Zip(HeaderAfter(lines[i + 1], i, HeaderBefore(lines, i)), lines[i + 1].cells))

\* the numbers of the lines that carry a gene
GeneLineNumbers(lines) ==
    {i \in 0..(Len(lines) - 1) :
        /\ IsGeneLine(lines[i + 1], i)
        /\ InfoFound(Zip(HeaderAfter(lines[i + 1], i, HeaderBefore(lines, i)),
                         lines[i + 1].cells))}

\* the identifier of a gene: its hgnc_id, or its hgnc_symbol when no
\* hgnc_id is given
Identifier(gene) ==
    IF gene.hgnc_id # <<>> THEN [hgnc_id |-> gene.hgnc_id[1]]
    ELSE [hgnc_symbol |-> gene.hgnc_symbol]

\* every gene line names its gene: none is malformed, and a given hgnc_id
\* is a positive number
WellFormed(lines) ==
    \A i \in GeneLineNumbers(lines) :
        /\ GeneOfLine(lines, i).ok
        /\ GeneOfLine(lines, i).gene.hgnc_id # <<0>>

\* the gene lines whose identifier no earlier gene line has
FirstOccurrences(lines) ==
    {i \in GeneLineNumbers(lines) :
        \A j \in GeneLineNumbers(lines) :
            j < i => Identifier(GeneOfLine(lines, j).gene) # Identifier(GeneOfLine(lines, i).gene)}

\* C16: for every sequence of well-formed gene lines, the genes parse_genes
\* returns have pairwise distinct identifiers, and they are exactly the
\* genes of the lines that are the first of their identifier, in the order
\* of the lines.
C16_FirstOccurrencesInOrder ==
    [][(IsParse /\ WellFormed(gene_lines)) =>
         LET first == FirstOccurrences(gene_lines)
         IN /\ raised' = "none"
            /\ \A k, l \in 1..Len(parsed_genes') :
                  k # l => Identifier(parsed_genes'[k]) # Identifier(parsed_genes'[l])
            /\ Len(parsed_genes') = Cardinality(first)
            /\ \A k \in 1..Len(parsed_genes') :
                  \E i \in first :
                      /\ Cardinality({j \in first : j < i}) = k - 1
                      /\ parsed_genes'[k] = GeneOfLine(gene_lines, i).gene]_vars

\* a file of well-formed lines has been parsed, in which a later line
\* repeated the identifier of an earlier one and one did not
C16_Witness ==
    /\ WellFormed(gene_lines)
    /\ Len(parsed_genes) = 2
    /\ Cardinality(GeneLineNumbers(gene_lines)) = 3
    /\ Identifier(GeneOfLine(gene_lines, 0).gene) = Identifier(GeneOfLine(gene_lines, 1).gene)

(* --------------------------------- C17 -------------------------------- *)
\* C17 (violated): for every `add` entry of the base's queue the new version
\* holds a gene with the entry's hgnc_id and symbol that carries exactly the
\* optional fields present in the entry's info, with the info's values, and
\* no other optional field.
C17_AddCarriesEveryPresentField ==
    [][IsApply =>
          \A k \in 1..Len(Base.pending) :
              Base.pending[k].action = "add" =>
                  LET update == Base.pending[k]
                  IN \E p \in 1..Len(Result.genes) :
                        LET gene == Result.genes[p]
                        IN /\ gene.hgnc_id = update.hgnc_id
                           /\ gene.symbol = update.symbol
                           /\ DOMAIN gene = {"hgnc_id", "symbol"} \cup DOMAIN update.info
                           /\ \A f \in DOMAIN update.info : gene[f] = update.info[f]]_vars

(* --------------------------------- C18 -------------------------------- *)
\* C18 (violated): the pending queue of an archived document is frozen: no
\* add_pending or apply_pending call changes the queue of a document that
\* is archived when the call is made.
C18_ArchivedPendingIsFrozen ==
    [][\A d \in panel_collection :
          d.is_archived =>
              \A e \in panel_collection' : e._id = d._id => e.pending = d.pending]_vars

(* --------------------------------- C19 -------------------------------- *)
\* C19 (violated): after any sequence of add_gene_panel, add_pending and
\* apply_pending calls made one after the other, apply_pending on any stored
\* document, archived or not, latest or not, the store holds as many
\* documents as it holds (panel_name, version) pairs.
C19_OneDocumentPerNameAndVersion ==
    Cardinality({<<d.panel_name, d.version>> : d \in panel_collection})
        = Cardinality(panel_collection)

(* --------------------------------- C20 -------------------------------- *)
\* the highest version stored for a panel name
HighestVersion(collection, panel_id) ==
    LET versions == {d.version : d \in {e \in collection : e.panel_name = panel_id}}
    IN CHOOSE v \in versions : \A w \in versions : w <= v

\* C20 (violated): when an apply_pending call has failed after its insert
\* and before archiving its base, and the caller reads the latest version
\* again and retries, the highest version stored after the retry's insert
\* is the version of the failed call's base plus one, the version the
\* failed call inserted.
C20_RetryDoesNotIncrementTwice ==
    [][(pc["c1"] = "retrying" /\ pc'["c1"] = "inserted") =>
          HighestVersion(panel_collection', PanelName) = new_panel["c1"].version]_vars

(* --------------------------------- C21 -------------------------------- *)
\* C21 (violated): every panel latest_panels may yield for an institute is a
\* document of that institute, and the panel names it yields are exactly the
\* panel names of the institute's documents, whatever other institutes have
\* stored under the same names.
C21_LatestPanelsAreTheInstitutes ==
    \A i \in Institutes :
        /\ \A p \in LatestPanels(panel_collection, i) : p.institute = i
        /\ {p.panel_name : p \in LatestPanels(panel_collection, i)}
              = {d.panel_name : d \in GenePanels(panel_collection, i)}

(* --------------------------------- C22 -------------------------------- *)
\* C22 (violated): when a client's apply_pending call on a version completes
\* by archiving it, every entry that stood in the stored pending queue of
\* that version just before is either one the call merged (an entry of the
\* snapshot the call was given) or still stands in the stored queue.
C22_NoProposalIsLost ==
    [][\A c \in Clients :
          (pc[c] = "inserted" /\ pc'[c] = "idle") =>
              \A d \in panel_collection : \A e \in panel_collection' :
                  (d._id = panel_obj[c]._id /\ e._id = d._id) =>
                      \A k \in 1..Len(d.pending) :
                          \/ /\ k <= Len(panel_obj[c].pending)
                             /\ panel_obj[c].pending[k] = d.pending[k]
                          \/ /\ k <= Len(e.pending)
                             /\ e.pending[k] = d.pending[k]]_vars

(* --------------------------------- C23 -------------------------------- *)
\* the stored versions of the panel
Versions == {d \in panel_collection : d.panel_name = PanelName}

\* C23: when apply_pending is called again and again, each time on the latest
\* version, then whenever no call is between its insert and its archiving
\* exactly one stored version of the panel is not archived, it has the
\* highest version, and every lower version is archived; between the insert
\* and the archiving of a call two versions are not archived.
C23_OnlyTheLatestIsNotArchived ==
    IF pc["c1"] = "inserted"
    THEN Cardinality({d \in Versions : ~d.is_archived}) = 2
    ELSE /\ Cardinality({d \in Versions : ~d.is_archived}) = 1
         /\ \A d \in Versions :
               d.is_archived <=> \E e \in Versions : e.version > d.version

\* C23 witness: two calls have completed, the second on the version the first
\* inserted: versions 1 and 2 are archived and version 3 is not.
C23_Witness ==
    /\ pc["c1"] = "idle"
    /\ new_panel["c1"]._id # 0
    /\ {<<d.version, d.is_archived>> : d \in Versions}
          = {<<1, TRUE>>, <<2, TRUE>>, <<3, FALSE>>}

(* --------------------------------- C24 -------------------------------- *)
\* the number of `add` entries among the first k entries of a queue
AddsUpTo(pending, k) == Cardinality({j \in 1..k : pending[j].action = "add"})

\* C24: the `delete` and `edit` entries of a queue do not touch the genes its
\* `add` entries create, wherever they stand in the queue: every `add` entry
\* has its gene in the new version, with the entry's hgnc_id and symbol and
\* no optional field but fields of the entry's own info, with that info's
\* values; and a gene the base does not hold is in the new version as often
\* as the queue adds it.
C24_AddedGenesAreNotUpdated ==
    [][IsApply =>
          /\ \A k \in 1..Len(Base.pending) :
                Base.pending[k].action = "add" =>
                    LET update == Base.pending[k]
                        gene == Result.genes[AddsUpTo(Base.pending, k)]
                    IN /\ gene.hgnc_id = update.hgnc_id
                       /\ gene.symbol = update.symbol
                       /\ DOMAIN gene \subseteq {"hgnc_id", "symbol"} \cup DOMAIN update.info
                       /\ \A f \in DOMAIN gene \ {"hgnc_id", "symbol"} :
                             gene[f] = update.info[f]
          /\ \A k \in 1..Len(Base.pending) :
                Count(Base.genes, Base.pending[k].hgnc_id) = 0 =>
                    Count(Result.genes, Base.pending[k].hgnc_id)
                        = Count(AddEntries(Base.pending), Base.pending[k].hgnc_id)]_vars

\* C24 witness: a call on the loaded panel, which has no gene 3, has
\* completed with a queue that adds gene 3 without optional fields and then
\* edits gene 3 with inheritance models: the new version starts with gene 3
\* as added.
C24_Witness ==
    /\ Applied
    /\ panel_obj["c1"].version = 1
    /\ Len(panel_obj["c1"].pending) = 2
    /\ panel_obj["c1"].pending[1].action = "add"
    /\ panel_obj["c1"].pending[1].hgnc_id = 3
    /\ panel_obj["c1"].pending[1].info = EmptyDict
    /\ panel_obj["c1"].pending[2].action = "edit"
    /\ panel_obj["c1"].pending[2].hgnc_id = 3
    /\ "inheritance_models" \in DOMAIN panel_obj["c1"].pending[2].info
    /\ new_panel["c1"].genes[1] = [hgnc_id |-> 3, symbol |-> "C"]
    /\ Ids(new_panel["c1"].genes) = <<3, 1, 2>>

====
